---- MODULE Spec2Model ----
(***************************************************************************)
(* Model of the crate with-checked-bytes (src/src/lib.rs).                 *)
(*                                                                         *)
(* The crate has one entry point, `str::with_checked_bytes_mut(f)`, which  *)
(* hands the closure `f` a `&mut MutableStringBytes` (a two-variant enum,  *)
(* Borrowed(&[u8]) | Owned(Vec<u8>)), runs it once, and then either copies *)
(* the owned buffer back into the string (if it is valid UTF-8) or returns *)
(* Err(Error::InvalidUtf8).                                                *)
(*                                                                         *)
(* A state of the model is the string's bytes (`storage`), the local       *)
(* `target` of the call, the local `res`, the call's outcome (`result`),   *)
(* the position of the call (`pc`) and history variables that count what   *)
(* the view did during the current call.  One behaviour is a sequence of   *)
(* calls on one string; Call builds the view, Invoke starts the closure,    *)
(* and until ClosureReturn the closure does one operation on the view per  *)
(* step.                                                                   *)
(*                                                                         *)
(* The closure is caller code.  It can use the view through Deref and      *)
(* DerefMut (Read, Write, MutAccess), and, because MutableStringBytes is a *)
(* `pub enum` whose variants are therefore public, it can also match on    *)
(* the enum or assign a new enum value through the `&mut` it receives      *)
(* (RawSetBorrowed, RawSetOwned, RawPush, RawPop).  The history variable   *)
(* `replaced` records whether it assigned a new enum value in the current  *)
(* call.                                                                   *)
(***************************************************************************)
EXTENDS Integers, Sequences, FiniteSets, TLC

VARIABLES
    storage,    \* the bytes of the str `self`
    pre,        \* history: `storage` when the current call started
    target,     \* the local `target` (line 58): [mode, bytes]
    pc,         \* "idle" | "constructed" | "closure" | "closed" | "returned" | "panicked"
    res,        \* the local `res` (line 59): {} before the closure returned, {r} after
    result,     \* what the caller received from the call that ended last: [tag, val]
    copies,     \* history: number of slice.to_vec() (line 92) in the current call
    muts,       \* history: number of deref_mut calls in the current call
    replaced,   \* history: the closure assigned a new enum value to `*s` in the current call
    lastRead,   \* {} or {b}: the byte the closure's last indexed read produced
    invoked,    \* history: number of times the current call has invoked the closure
    sawInvalid  \* history: the view held ill-formed UTF-8 at some point of the current call

vars == <<storage, pre, target, pc, res, result, copies, muts, replaced, lastRead,
          invoked, sawInvalid>>

----------------------------------------------------------------------------
(* Bounds *)

\* Longest string modelled, in bytes.
MaxLen == 2

\* Number of mutable accesses (deref_mut) a closure makes in one call.
MaxMuts == 2

\* The byte values modelled, out of 0..255: two ASCII letters ('A', 'B'), the
\* lead byte of a two-byte sequence (0xC3), a continuation byte (0x80) and a
\* byte that occurs in no UTF-8 text (0xFF, as in twiddle_a_byte_bad).
Bytes == {65, 66, 128, 195, 255}

\* The values a closure returns (R = u8, as in return_a_byte).
RetVals == {65, 66}

\* The `'static` byte slices and vector literals the closure can build itself.
Literals == {<<>>, <<66>>, <<255>>, <<66, 65>>}

RECURSIVE SeqsUpTo(_)
SeqsUpTo(n) ==
    IF n = 0 THEN {<<>>}
    ELSE LET shorter == SeqsUpTo(n - 1)
         IN shorter \cup {Append(s, b) : s \in {t \in shorter : Len(t) = n - 1}, b \in Bytes}

----------------------------------------------------------------------------
(* std::str::from_utf8, as called on line 62: whether `v` is well-formed UTF-8 *)
(* (Unicode Table 3-7: no overlong forms, no surrogates, nothing above        *)
(* U+10FFFF).                                                                 *)

InRange(v, k, lo, hi) == k <= Len(v) /\ v[k] >= lo /\ v[k] <= hi

RECURSIVE Utf8From(_, _)
Utf8From(v, i) ==
    IF i > Len(v) THEN TRUE
    ELSE LET b == v[i]
         IN CASE b <= 127 -> Utf8From(v, i + 1)
              [] b >= 194 /\ b <= 223 ->
                    InRange(v, i + 1, 128, 191) /\ Utf8From(v, i + 2)
              [] b = 224 ->
                    /\ InRange(v, i + 1, 160, 191)
                    /\ InRange(v, i + 2, 128, 191)
                    /\ Utf8From(v, i + 3)
              [] (b >= 225 /\ b <= 236) \/ b = 238 \/ b = 239 ->
                    /\ InRange(v, i + 1, 128, 191)
                    /\ InRange(v, i + 2, 128, 191)
                    /\ Utf8From(v, i + 3)
              [] b = 237 ->
                    /\ InRange(v, i + 1, 128, 159)
                    /\ InRange(v, i + 2, 128, 191)
                    /\ Utf8From(v, i + 3)
              [] b = 240 ->
                    /\ InRange(v, i + 1, 144, 191)
                    /\ InRange(v, i + 2, 128, 191)
                    /\ InRange(v, i + 3, 128, 191)
                    /\ Utf8From(v, i + 4)
              [] b >= 241 /\ b <= 243 ->
                    /\ InRange(v, i + 1, 128, 191)
                    /\ InRange(v, i + 2, 128, 191)
                    /\ InRange(v, i + 3, 128, 191)
                    /\ Utf8From(v, i + 4)
              [] b = 244 ->
                    /\ InRange(v, i + 1, 128, 143)
                    /\ InRange(v, i + 2, 128, 191)
                    /\ InRange(v, i + 3, 128, 191)
                    /\ Utf8From(v, i + 4)
              [] OTHER -> FALSE

\* a from_utf8 that checks nothing (from_utf8_unchecked)
FromUtf8AcceptsAll(v) == TRUE

FromUtf8Ok(v) == Utf8From(v, 1)

\* The values a `str` can hold: every str is valid UTF-8.
Strs == {s \in SeqsUpTo(MaxLen) : Utf8From(s, 1)}

----------------------------------------------------------------------------
(* The view: enum MutableStringBytes (lines 73-76).  A Borrowed view holds  *)
(* a shared reference; the bytes behind it cannot change while it is held,  *)
(* so the model keeps their value.                                          *)

Borrowed(slice) == [mode |-> "Borrowed", bytes |-> slice]
Owned(vec) == [mode |-> "Owned", bytes |-> vec]
NoView == [mode |-> "None", bytes |-> <<>>]

\* self.as_bytes()
AsBytes(s) == s

\* line 58: MutableStringBytes::Borrowed(self.as_bytes())
NewView(s) == Borrowed(AsBytes(s))

\* Deref::deref (lines 81-86)
Deref(view) == view.bytes

\* slice.to_vec() (line 92)
ToVec(slice) == slice

\* DerefMut::deref_mut (lines 90-99): the view after the call
DerefMut(view) == IF view.mode = "Borrowed" THEN Owned(ToVec(view.bytes)) ELSE view

\* number of to_vec() copies one deref_mut call makes (lines 91-94)
CopiesOfDerefMut(view) == IF view.mode = "Borrowed" THEN 1 ELSE 0

\* `view[i] = b` on the slice deref_mut returned (0-based i, in range)
SetByte(view, i, b) == [view EXCEPT !.bytes[i + 1] = b]

\* a copy-back that stops after the first byte
CopyFromSliceFirstOnly(dst, src) ==
    [k \in 1..Len(dst) |-> IF k = 1 THEN src[k] ELSE dst[k]]

\* <[u8]>::copy_from_slice (line 64), for Len(src) = Len(dst); it panics otherwise
CopyFromSlice(dst, src) == [k \in 1..Len(dst) |-> src[k]]

----------------------------------------------------------------------------
(* Outcomes: Result<R, Error> *)

NoResult == [tag |-> "None", val |-> {}]

\* an Ok that carries a fixed value instead of `res`
OkResultDefault(r) == [tag |-> "Ok", val |-> {65}]

\* line 68: Ok(res)
OkResult(r) == [tag |-> "Ok", val |-> r]

\* an error that still carries `res`
ErrResultCarrying(r) == [tag |-> "Err", val |-> r]

\* line 65: Err(Error::InvalidUtf8); `res` is in scope and is dropped
ErrResult(r) == [tag |-> "Err", val |-> {}]

----------------------------------------------------------------------------
Init ==
    /\ storage \in Strs
    /\ pre = storage
    /\ target = NoView
    /\ pc = "idle"
    /\ res = {}
    /\ result = NoResult
    /\ copies = 0
    /\ muts = 0
    /\ replaced = FALSE
    /\ lastRead = {}
    /\ invoked = 0
    /\ sawInvalid = FALSE

\* line 58: the call starts and builds the view; the caller still holds the
\* outcome of its previous call
Call ==
    /\ pc \in {"idle", "returned"}
    /\ pre' = storage
    /\ target' = NewView(storage)
    /\ pc' = "constructed"
    /\ invoked' = 0
    /\ sawInvalid' = FALSE
    /\ res' = {}
    /\ copies' = 0
    /\ muts' = 0
    /\ replaced' = FALSE
    /\ lastRead' = {}
    /\ UNCHANGED <<storage, result>>

\* line 59: f(&mut target) is called; the closure starts to run
Invoke ==
    /\ pc = "constructed"
    /\ pc' = "closure"
    /\ invoked' = invoked + 1
    /\ result' = NoResult
    /\ UNCHANGED <<storage, pre, target, res, copies, muts, replaced, lastRead, sawInvalid>>

\* the closure reads `s[i]` (Deref, then slice indexing)
Read(i) ==
    /\ pc = "closure"
    /\ i < Len(Deref(target))
    /\ lastRead' = {Deref(target)[i + 1]}
    /\ UNCHANGED <<storage, pre, target, pc, res, result, copies, muts, replaced, invoked, sawInvalid>>

\* the closure reads `s[i]` out of range: slice indexing panics
ReadOutOfBounds(i) ==
    /\ pc = "closure"
    /\ i >= Len(Deref(target))
    /\ pc' = "panicked"
    /\ UNCHANGED <<storage, pre, target, res, result, copies, muts, replaced, lastRead, invoked, sawInvalid>>

\* the closure takes `&mut s[..]` and stores nothing (DerefMut alone)
MutAccess ==
    /\ pc = "closure"
    /\ muts < MaxMuts
    /\ target' = DerefMut(target)
    /\ copies' = copies + CopiesOfDerefMut(target)
    /\ muts' = muts + 1
    /\ UNCHANGED <<storage, pre, pc, res, result, replaced, lastRead, invoked, sawInvalid>>

\* a write that also stores the byte into the string itself
WriteThrough(i, b) ==
    /\ pc = "closure"
    /\ muts < MaxMuts
    /\ i < Len(DerefMut(target).bytes)
    /\ i < Len(storage)
    /\ target' = SetByte(DerefMut(target), i, b)
    /\ storage' = [storage EXCEPT ![i + 1] = b]
    /\ copies' = copies + CopiesOfDerefMut(target)
    /\ muts' = muts + 1
    /\ sawInvalid' = (sawInvalid \/ ~Utf8From(target'.bytes, 1))
    /\ UNCHANGED <<pre, pc, res, result, replaced, lastRead, invoked>>

\* the closure does `s[i] = b` (DerefMut, then slice indexing)
Write(i, b) ==
    /\ pc = "closure"
    /\ muts < MaxMuts
    /\ i < Len(DerefMut(target).bytes)
    /\ target' = SetByte(DerefMut(target), i, b)
    /\ copies' = copies + CopiesOfDerefMut(target)
    /\ muts' = muts + 1
    /\ sawInvalid' = (sawInvalid \/ ~Utf8From(target'.bytes, 1))
    /\ UNCHANGED <<storage, pre, pc, res, result, replaced, lastRead, invoked>>

\* the closure does `s[i] = b` out of range: deref_mut runs, indexing panics
WriteOutOfBounds(i) ==
    /\ pc = "closure"
    /\ muts < MaxMuts
    /\ i >= Len(DerefMut(target).bytes)
    /\ target' = DerefMut(target)
    /\ copies' = copies + CopiesOfDerefMut(target)
    /\ muts' = muts + 1
    /\ pc' = "panicked"
    /\ UNCHANGED <<storage, pre, res, result, replaced, lastRead, invoked, sawInvalid>>

\* the closure does `*s = MutableStringBytes::Borrowed(lit)`
RawSetBorrowed(lit) ==
    /\ pc = "closure"
    /\ target' = Borrowed(lit)
    /\ replaced' = TRUE
    /\ sawInvalid' = (sawInvalid \/ ~Utf8From(target'.bytes, 1))
    /\ UNCHANGED <<storage, pre, pc, res, result, copies, muts, lastRead, invoked>>

\* the closure does `*s = MutableStringBytes::Owned(lit.to_vec())`
RawSetOwned(lit) ==
    /\ pc = "closure"
    /\ target' = Owned(lit)
    /\ replaced' = TRUE
    /\ sawInvalid' = (sawInvalid \/ ~Utf8From(target'.bytes, 1))
    /\ UNCHANGED <<storage, pre, pc, res, result, copies, muts, lastRead, invoked>>

\* the closure does `if let MutableStringBytes::Owned(v) = s { v.push(b) }`
RawPush(b) ==
    /\ pc = "closure"
    /\ target.mode = "Owned"
    /\ Len(target.bytes) < MaxLen
    /\ target' = Owned(Append(target.bytes, b))
    /\ sawInvalid' = (sawInvalid \/ ~Utf8From(target'.bytes, 1))
    /\ UNCHANGED <<storage, pre, pc, res, result, copies, muts, replaced, lastRead, invoked>>

\* the closure does `if let MutableStringBytes::Owned(v) = s { v.pop(); }`
RawPop ==
    /\ pc = "closure"
    /\ target.mode = "Owned"
    /\ Len(target.bytes) > 0
    /\ target' = Owned(SubSeq(target.bytes, 1, Len(target.bytes) - 1))
    /\ sawInvalid' = (sawInvalid \/ ~Utf8From(target'.bytes, 1))
    /\ UNCHANGED <<storage, pre, pc, res, result, copies, muts, replaced, lastRead, invoked>>

\* line 59: the closure returns r, which is bound to `res`; its locals are gone
ClosureReturn(r) ==
    /\ pc = "closure"
    /\ res' = {r}
    /\ pc' = "closed"
    /\ lastRead' = {}
    /\ UNCHANGED <<storage, pre, target, result, copies, muts, replaced, invoked, sawInvalid>>

\* a Borrowed arm that reports the error
FinishBorrowedAsErr ==
    /\ pc = "closed"
    /\ target.mode = "Borrowed"
    /\ result' = ErrResult(res)
    /\ res' = {}
    /\ pc' = "returned"
    /\ UNCHANGED <<storage, pre, target, copies, muts, replaced, lastRead, invoked, sawInvalid>>

\* lines 60-61, 68: the view is still Borrowed
FinishBorrowed ==
    /\ pc = "closed"
    /\ target.mode = "Borrowed"
    /\ result' = OkResult(res)
    /\ res' = {}
    /\ pc' = "returned"
    /\ UNCHANGED <<storage, pre, target, copies, muts, replaced, lastRead, invoked, sawInvalid>>

\* lines 62-64, 68: the owned buffer is valid UTF-8 and is copied back
FinishCommit ==
    /\ pc = "closed"
    /\ target.mode = "Owned"
    /\ FromUtf8Ok(target.bytes)
    /\ Len(target.bytes) = Len(storage)
    /\ storage' = CopyFromSlice(storage, target.bytes)
    /\ result' = OkResult(res)
    /\ res' = {}
    /\ pc' = "returned"
    /\ UNCHANGED <<pre, target, copies, muts, replaced, lastRead, invoked, sawInvalid>>

\* lines 62-64: the owned buffer is valid UTF-8 of another length;
\* copy_from_slice panics before it copies anything (`res` is still live)
FinishLengthPanic ==
    /\ pc = "closed"
    /\ target.mode = "Owned"
    /\ FromUtf8Ok(target.bytes)
    /\ Len(target.bytes) # Len(storage)
    /\ pc' = "panicked"
    /\ UNCHANGED <<storage, pre, target, res, result, copies, muts, replaced, lastRead, invoked, sawInvalid>>

\* an Err arm that runs the closure again on a fresh view instead of returning
FinishInvalidRetries ==
    /\ pc = "closed"
    /\ target.mode = "Owned"
    /\ ~FromUtf8Ok(target.bytes)
    /\ invoked < 2
    /\ target' = NewView(storage)
    /\ invoked' = invoked + 1
    /\ res' = {}
    /\ pc' = "closure"
    /\ UNCHANGED <<storage, pre, result, copies, muts, replaced, lastRead, sawInvalid>>

\* an Err arm that copies the buffer back before it reports the error
FinishInvalidCommits ==
    /\ pc = "closed"
    /\ target.mode = "Owned"
    /\ ~FromUtf8Ok(target.bytes)
    /\ Len(target.bytes) = Len(storage)
    /\ storage' = CopyFromSlice(storage, target.bytes)
    /\ result' = ErrResult(res)
    /\ res' = {}
    /\ pc' = "returned"
    /\ UNCHANGED <<pre, target, copies, muts, replaced, lastRead, invoked, sawInvalid>>

\* lines 62, 65: the owned buffer is not valid UTF-8
FinishInvalid ==
    /\ pc = "closed"
    /\ target.mode = "Owned"
    /\ ~FromUtf8Ok(target.bytes)
    /\ result' = ErrResult(res)
    /\ res' = {}
    /\ pc' = "returned"
    /\ UNCHANGED <<storage, pre, target, copies, muts, replaced, lastRead, invoked, sawInvalid>>

Next ==
    \/ Call
    \/ Invoke
    \/ \E i \in 0..(MaxLen - 1) : Read(i)
    \/ \E i \in 0..MaxLen : ReadOutOfBounds(i)
    \/ MutAccess
    \/ \E i \in 0..(MaxLen - 1), b \in Bytes : Write(i, b)
    \/ \E i \in 0..MaxLen : WriteOutOfBounds(i)
    \/ \E lit \in Literals : RawSetBorrowed(lit)
    \/ \E lit \in Literals : RawSetOwned(lit)
    \/ \E b \in Bytes : RawPush(b)
    \/ RawPop
    \/ \E r \in RetVals : ClosureReturn(r)
    \/ FinishBorrowed
    \/ FinishCommit
    \/ FinishLengthPanic
    \/ FinishInvalid

Spec == Init /\ [][Next]_vars

----------------------------------------------------------------------------
TypeOK ==
    /\ storage \in Strs
    /\ pre \in Strs
    /\ target.mode \in {"None", "Borrowed", "Owned"}
    /\ pc \in {"idle", "constructed", "closure", "closed", "returned", "panicked"}
    /\ res \subseteq RetVals
    /\ result.tag \in {"None", "Ok", "Err"}
    /\ copies \in 0..MaxMuts
    /\ muts \in 0..MaxMuts
    /\ replaced \in BOOLEAN
    /\ lastRead \subseteq Bytes
    /\ invoked \in {0, 1}
    /\ sawInvalid \in BOOLEAN

----------------------------------------------------------------------------
(* Vocabulary of the properties *)

\* well-formed UTF-8, independently of what the call's validation does
ValidUtf8(v) == Utf8From(v, 1)

\* the call has returned to its caller
Returned == pc = "returned"

\* the call panicked at the copy-back on line 64 (`res` was still live);
\* a panic inside the closure leaves `res` unset
CommitPanicked == pc = "panicked" /\ res # {}

\* no call is in progress
OutsideCall == pc \in {"idle", "returned", "panicked"}

\* a call is in progress or has just ended, and `target` is its view
InCall == pc \in {"constructed", "closure", "closed", "returned", "panicked"}

----------------------------------------------------------------------------
(* C1 - Rollback.  When the closure, working on the view it was handed,     *)
(* leaves a final buffer that is not valid UTF-8, the call returns          *)
(* Err(InvalidUtf8) and the string's bytes are those it had before the      *)
(* call.                                                                    *)
C1_Rollback ==
    (Returned /\ ~replaced /\ ~ValidUtf8(Deref(target)))
        => (result.tag = "Err" /\ storage = pre)

C1_Witness ==
    /\ Returned
    /\ ~replaced
    /\ muts > 0
    /\ ~ValidUtf8(Deref(target))
    /\ result.tag = "Err"
    /\ Len(storage) = MaxLen

(* C2 - Commit.  When the closure, working on the view it was handed,       *)
(* leaves a final buffer that is valid UTF-8 of the string's length, the    *)
(* call does not panic at the copy-back, returns Ok, and every byte of the  *)
(* string equals the final buffer.                                          *)
C2_Commit ==
    (/\ Returned \/ CommitPanicked
     /\ ~replaced
     /\ ValidUtf8(Deref(target))
     /\ Len(Deref(target)) = Len(pre))
        => (Returned /\ result.tag = "Ok" /\ storage = Deref(target))

C2_Witness ==
    /\ Returned
    /\ ~replaced
    /\ muts > 0
    /\ result.tag = "Ok"
    /\ Len(storage) = MaxLen
    /\ \A k \in 1..Len(storage) : storage[k] # pre[k]

(* C3 - Storage validity.  Whenever no call is in progress (before the      *)
(* first call, after a call returned Ok or Err, after a call panicked) the  *)
(* string holds valid UTF-8, whatever the closures did.                     *)
C3_StorageValid == OutsideCall => ValidUtf8(storage)

C3_Witness ==
    /\ Returned
    /\ result.tag = "Ok"
    /\ target.mode = "Owned"
    /\ storage # pre
    /\ \E k \in 1..Len(storage) : storage[k] > 127

(* C4 - No-op purity.  A call whose closure only read through the view, or  *)
(* did nothing, returns Ok and leaves the string as it was.                 *)
C4_NoOpPurity ==
    (Returned /\ muts = 0 /\ ~replaced)
        => (result.tag = "Ok" /\ storage = pre)

C4_Witness ==
    /\ Returned
    /\ muts = 0
    /\ ~replaced
    /\ result.tag = "Ok"
    /\ Len(storage) = MaxLen

(* C5 - InvalidUtf8 exactly when the view ended Owned with an invalid       *)
(* buffer.  Once the closure has returned and the call has ended, the       *)
(* outcome is Err(InvalidUtf8) if and only if the view ended Owned with a   *)
(* buffer that is not valid UTF-8, and it is Ok in every other case.        *)
C5_ErrIffOwnedInvalid ==
    (Returned \/ CommitPanicked)
        => LET bad == target.mode = "Owned" /\ ~ValidUtf8(target.bytes)
           IN /\ (result.tag = "Err") <=> bad
              /\ ~bad => result.tag = "Ok"

(* C6 - Return-value passthrough.  Every step by which the call returns Ok  *)
(* delivers as payload exactly the value the closure returned, in the       *)
(* Borrowed arm and in the Owned arm.                                       *)
C6_Passthrough ==
    [][(pc = "closed" /\ pc' = "returned" /\ result'.tag = "Ok")
          => result'.val = res]_vars

C6_Witness ==
    /\ Returned
    /\ result = [tag |-> "Ok", val |-> {66}]
    /\ target.mode = "Owned"
    /\ storage # pre

(* C7 - Copy-on-write laziness.  Within one call the view has made no copy  *)
(* if the closure never asked for mutable access, and exactly one copy if   *)
(* it asked once or more.                                                   *)
C7_CopyOnce ==
    InCall => /\ muts = 0 => copies = 0
              /\ muts >= 1 => copies = 1

(* C8 - Mode monotonicity.  A call's view starts Borrowed, is Owned after   *)
(* every mutable access, and no step of the closure takes an Owned view     *)
(* back to Borrowed.                                                        *)
C8_ModeMonotonic ==
    [][/\ (pc # "closure" /\ pc' = "closure") => target'.mode = "Borrowed"
       /\ (pc = "closure" /\ muts' > muts) => target'.mode = "Owned"
       /\ (pc = "closure" /\ target.mode = "Owned") => target'.mode = "Owned"]_vars

(* C9 - Length preservation.  Whenever the view is Owned its buffer is as   *)
(* long as the string, the copy-back never meets unequal lengths, and the   *)
(* string is as long after a call as before it.                             *)
C9_LengthPreserved ==
    /\ (InCall /\ target.mode = "Owned") => Len(target.bytes) = Len(storage)
    /\ ~CommitPanicked
    /\ Len(storage) = Len(pre)

(* C10 - No value on failure.  When the call returned Err(InvalidUtf8) the  *)
(* caller holds the error alone: the outcome carries no value, and `res`    *)
(* is gone.                                                                 *)
C10_ErrCarriesNoValue ==
    (Returned /\ result.tag = "Err") => (result.val = {} /\ res = {})

C10_Witness ==
    /\ Returned
    /\ result.tag = "Err"
    /\ target.mode = "Owned"
    /\ ~replaced
    /\ storage = pre

(* C11 - Atomic commit.  From the construction of the view until the        *)
(* closure has returned, the string's bytes are those it had when the call  *)
(* started, whatever was written through the view.  The string changes      *)
(* only in the step that ends the call, after the closure returned, with    *)
(* an Owned buffer that is valid UTF-8, and in that one step it becomes     *)
(* the whole buffer.                                                        *)
C11_AtomicCommit ==
    [][/\ (pc' \in {"constructed", "closure", "closed"}) => storage' = pre'
       /\ (storage' # storage) =>
             /\ pc = "closed"
             /\ pc' = "returned"
             /\ target.mode = "Owned"
             /\ ValidUtf8(target.bytes)
             /\ storage' = target.bytes]_vars

C11_Witness ==
    /\ Returned
    /\ ~replaced
    /\ muts = MaxMuts
    /\ sawInvalid
    /\ result.tag = "Ok"
    /\ storage # pre

(* C12 - Read-your-writes.  At any point of a call, the view is as long as  *)
(* the string, and reading index i through it gives the byte last written   *)
(* to i in this call, or the string's byte at i when i was not written.     *)
(* Stated step by step: the closure starts on the string's bytes; a step    *)
(* of the closure that writes b to i leaves b at i; any other step of the   *)
(* closure leaves what is at i; no step changes the length; and a read of   *)
(* i yields what is at i.                                                   *)
C12_ReadYourWrites ==
    [][/\ (pc = "constructed" /\ pc' = "closure") => Deref(target') = pre
       /\ (pc = "closure" /\ pc' = "closure") =>
             /\ Len(Deref(target)) = Len(pre)
             /\ Len(Deref(target')) = Len(pre)
             /\ \A i \in 0..(Len(pre) - 1) :
                   /\ \A b \in Bytes : Write(i, b) => Deref(target')[i + 1] = b
                   /\ (~\E b \in Bytes : Write(i, b))
                         => Deref(target')[i + 1] = Deref(target)[i + 1]
                   /\ Read(i) => lastRead' = {Deref(target)[i + 1]}]_vars

(* C13 - Protocol ordering.  A call builds a Borrowed view of the string's  *)
(* current bytes, then invokes the closure, once; the closure returns;      *)
(* then the outcome is decided from the view's final mode and buffer (a     *)
(* Borrowed view: Ok, string untouched; an Owned valid buffer: copied       *)
(* back, Ok; an Owned invalid buffer: Err, string untouched); and only      *)
(* that step returns.  No call returns with the closure invoked zero times  *)
(* or twice, and the string never changes before the closure has returned.  *)
C13_ProtocolOrder ==
    [][/\ (pc' = "constructed") =>
             /\ pc \in {"idle", "returned"}
             /\ target' = [mode |-> "Borrowed", bytes |-> storage]
             /\ invoked' = 0
             /\ storage' = storage
       /\ (pc' = "closure" /\ pc # "closure") =>
             (pc = "constructed" /\ invoked' = 1)
       /\ (pc' = "closure" /\ pc = "closure") => invoked' = invoked
       /\ (pc' = "closed") => (pc = "closure" /\ invoked' = 1)
       /\ (pc' = "returned") =>
             /\ pc = "closed"
             /\ invoked' = 1
             /\ IF target.mode = "Borrowed"
                THEN result'.tag = "Ok" /\ storage' = storage
                ELSE IF ValidUtf8(target.bytes)
                     THEN result'.tag = "Ok" /\ storage' = target.bytes
                     ELSE result'.tag = "Err" /\ storage' = storage
       /\ (storage' # storage) => pc = "closed"]_vars

C13_Witness ==
    /\ Returned
    /\ invoked = 1
    /\ muts = 1
    /\ ~replaced
    /\ result.tag = "Err"
    /\ storage = pre
    /\ Len(storage) = MaxLen

(* C14 - Identity write.  When the closure asked for mutable access and     *)
(* the view's final bytes equal the string's, the view ends Owned, and the  *)
(* call returns Ok with the string as it was.                               *)
C14_IdentityWrite ==
    (pc \in {"closed", "returned"} /\ muts >= 1 /\ Deref(target) = pre)
        => /\ target.mode = "Owned"
           /\ Returned => (result.tag = "Ok" /\ storage = pre)

C16_OnlyFinalValidated ==
    /\ ((Returned \/ CommitPanicked) /\ sawInvalid /\ ValidUtf8(Deref(target)))
          => (Returned /\ result.tag = "Ok" /\ storage = Deref(target))
    /\ (Returned /\ result.tag = "Err") => ~ValidUtf8(Deref(target))

====
